---- MODULE Spec2Model ----
(***************************************************************************)
(* MokuMoku AI Server (src/main.py): one FastAPI process with one          *)
(* endpoint, POST /v1/ai_comment, that validates a summary request, builds *)
(* a prompt from it, calls the chat-completion provider and wraps the      *)
(* returned text in an AICommentResponse.                                  *)
(*                                                                         *)
(* Strings of the source that are not ASCII are written in romaji:         *)
(*   JOHO_NASHI = "no information" marker, KONO_HI / KONO_SHU /            *)
(*   KONO_TSUKI / KONO_KIKAN = the labels for day / week / month / default.*)
(* Floats are integers in tenths (1013.2 is 10132); texts that the code    *)
(* strips are sequences of characters.                                     *)
(***************************************************************************)
EXTENDS Integers, Sequences, FiniteSets, TLC

VARIABLES
    env,            \* the process environment: variable name -> value
    pyEnumFormat,   \* what format() of a (str, Enum) member gives in this interpreter
    server,         \* "init" (not imported yet), "running", "crashed"
    api_key,        \* module-level api_key
    client,         \* module-level client
    SYSTEM_PROMPT,  \* module-level SYSTEM_PROMPT
    pc,             \* per request: "idle", "refused", "sent", "calling", "done"
    req,            \* per request: the JSON body the caller sent
    sent,           \* per request: the arguments of the provider call made for it
    calls,          \* per request: number of provider calls made for it
    completion,     \* per request: what the provider call produced
    resp            \* per request: the HTTP response

vars == <<env, pyEnumFormat, server, api_key, client, SYSTEM_PROMPT,
          pc, req, sent, calls, completion, resp>>

\* Number of requests that can be in flight at once.
NumRequests == 2

Requests == 1..NumRequests

-----------------------------------------------------------------------------
(* Values *)

\* JSON null, Python None, an optional field left out.
Null == [t |-> "null"]

\* A required field that the body does not carry.
Missing == [t |-> "missing"]

JFloat(tenths) == [t |-> "float", v |-> tenths]

JInt(n) == [t |-> "int", v |-> n]

JStr(s) == [t |-> "str", v |-> s]

Unset == "unset"

NoBody == [t |-> "nobody"]

NoCall == [t |-> "nocall"]

NoCompletion == [t |-> "nocompletion"]

NoResp == [status |-> 0]

Digit(d) ==
    CASE d = 0 -> "0" [] d = 1 -> "1" [] d = 2 -> "2" [] d = 3 -> "3"
      [] d = 4 -> "4" [] d = 5 -> "5" [] d = 6 -> "6" [] d = 7 -> "7"
      [] d = 8 -> "8" [] d = 9 -> "9"

RECURSIVE IntStr(_)
\* str() of a Python int.
IntStr(n) ==
    IF n < 0 THEN "-" \o IntStr(-n)
    ELSE IF n < 10 THEN Digit(n)
    ELSE IntStr(n \div 10) \o Digit(n % 10)

\* str() of a Python float with one decimal (given in tenths, not negative).
FloatStr(tenths) == IntStr(tenths \div 10) \o "." \o Digit(tenths % 10)

\* What an f-string replacement field {x} gives for a validated value.
PyFormat(x) ==
    CASE x.t = "null"  -> "None"
      [] x.t = "float" -> FloatStr(x.v)
      [] x.t = "int"   -> IntStr(x.v)
      [] x.t = "str"   -> x.v

-----------------------------------------------------------------------------
(* Module level: credential, client, system prompt *)

EnvNames == {"OPENAI_API_KEY", "_OPENAI_API_KEY"}

getenv(name) == env[name]

\* Python truthiness of what os.getenv returns (None or a string).
Truthy(v) == v # Null /\ v # JStr("")

\* x or y
PyOr(x, y) == IF Truthy(x) THEN x ELSE y

\* As LoadApiKey, with a built-in key when the environment has none.
LoadApiKeyDefaulted ==
    PyOr(PyOr(getenv("OPENAI_API_KEY"), getenv("_OPENAI_API_KEY")), JStr("sk-default"))

LoadApiKey == PyOr(getenv("OPENAI_API_KEY"), getenv("_OPENAI_API_KEY"))

OpenAI(key) == [api_key |-> key]

SystemPromptText == "SYSTEM_PROMPT: anata wa zutsuu/taichou log app no senyou assistant desu ..."

\* Import of the module: lines 15-49.
Startup ==
    /\ server = "init"
    /\ api_key' = LoadApiKey
    /\ IF ~Truthy(LoadApiKey)
       THEN \* RuntimeError at import: no app object, nothing listens.
            /\ server' = "crashed"
            /\ UNCHANGED <<client, SYSTEM_PROMPT>>
       ELSE /\ server' = "running"
            /\ client' = OpenAI(LoadApiKey)
            /\ SYSTEM_PROMPT' = SystemPromptText
    /\ UNCHANGED <<env, pyEnumFormat, pc, req, sent, calls, completion, resp>>

-----------------------------------------------------------------------------
(* Request schema *)

Scope == {"day", "week", "month"}

IsOptFloat(x) == x.t \in {"null", "float"}

PressureSummaryValid(p) ==
    /\ p.t = "obj"
    /\ IsOptFloat(p.min) /\ IsOptFloat(p.max) /\ IsOptFloat(p.delta)

HeadacheSummaryValid(h) ==
    /\ h.t = "obj"
    /\ h.count.t = "int"
    /\ h.max_level.t = "int"
    /\ IsOptFloat(h.avg_level)

AISummaryValid(s) ==
    /\ (s.pressure = Null \/ PressureSummaryValid(s.pressure))
    /\ HeadacheSummaryValid(s.headache)
    /\ IsOptFloat(s.sleep_hours_avg)
    /\ IsOptFloat(s.activity_score_avg)

\* As ScopeValid, with scope declared a plain string.
ScopeValidAnyString(s) == TRUE

ScopeValid(s) == s \in Scope

\* Validation of the body against AICommentRequest.
AICommentRequestValid(b) ==
    /\ ScopeValid(b.scope)
    /\ AISummaryValid(b.summary)

-----------------------------------------------------------------------------
(* Prompt construction *)

NO_INFO == "JOHO_NASHI"

DefaultLabel == "KONO_KIKAN"

scope_label(scope) ==
    CASE scope = "day"   -> "KONO_HI"
      [] scope = "week"  -> "KONO_SHU"
      [] scope = "month" -> "KONO_TSUKI"
      [] OTHER           -> DefaultLabel

PressureLine(p) ==
    IF p # Null
    THEN <<"- KIATSU: ", "SAITEI ", PyFormat(p.min), " hPa, SAIKOU ", PyFormat(p.max),
           " hPa, HENDOUHABA ", PyFormat(p.delta), " hPa">>
    ELSE <<"- KIATSU: ", NO_INFO>>

\* As HeadacheLine, with avg_level formatted without the test for None.
HeadacheLineUnguarded(h) ==
    <<"- ZUTSUU STAMP: GOUKEI ", PyFormat(h.count), " KEN, ",
      "SAIDAI LEVEL ", PyFormat(h.max_level), ", ",
      "HEIKIN LEVEL ", PyFormat(h.avg_level)>>

HeadacheLine(h) ==
    <<"- ZUTSUU STAMP: GOUKEI ", PyFormat(h.count), " KEN, ",
      "SAIDAI LEVEL ", PyFormat(h.max_level), ", ",
      "HEIKIN LEVEL ", IF h.avg_level # Null THEN PyFormat(h.avg_level) ELSE NO_INFO>>

SleepLine(s) ==
    IF s # Null
    THEN <<"- HEIKIN SUIMIN JIKAN: ", PyFormat(s), " JIKAN">>
    ELSE <<"- HEIKIN SUIMIN JIKAN: ", NO_INFO>>

ActivityLine(a) ==
    IF a # Null
    THEN <<"- KATSUDOURYOU SCORE HEIKIN: ", PyFormat(a)>>
    ELSE <<"- KATSUDOURYOU SCORE HEIKIN: ", NO_INFO>>

\* parts, joined by "\n" into stats_block: one line per element.
parts(summary) ==
    <<PressureLine(summary.pressure),
      HeadacheLine(summary.headache),
      SleepLine(summary.sleep_hours_avg),
      ActivityLine(summary.activity_score_avg)>>

\* The user prompt as its lines, each line as its pieces.
user_prompt(r) ==
    <<  <<>>,
        <<scope_label(r.scope), " (TARGET DATE: ", r.target_date,
          ") NO SHUUKEI DATA WA TSUGI NO TOORI DESU.">>,
        <<>> >>
    \o parts(r.summary)
    \o << <<>>,
          <<"KONO JOUHOU WO MOTO NI, ", scope_label(r.scope),
            " NO YOUSU WO 1-2 BUN NO MIJIKAI NIHONGO DE COMMENT SHITE KUDASAI.">>,
          <<"OMOKU NARISUGIZU, YASASHIKU FURIKAERU KANJI DE ONEGAI SHIMASU.">> >>

\* The arguments of client.chat.completions.create.
CreateArgs(r) ==
    [model       |-> "gpt-4.1-mini",
     messages    |-> << [role |-> "system", content |-> SYSTEM_PROMPT],
                        [role |-> "user",   content |-> user_prompt(r)] >>,
     temperature |-> "0.4"]

-----------------------------------------------------------------------------
(* Response construction *)

IsSpace(c) == c \in {" ", "\n", "\t"}

RECURSIVE LStrip(_)
LStrip(s) == IF s # <<>> /\ IsSpace(Head(s)) THEN LStrip(Tail(s)) ELSE s

RECURSIVE RStrip(_)
RStrip(s) ==
    IF s # <<>> /\ IsSpace(s[Len(s)]) THEN RStrip(SubSeq(s, 1, Len(s) - 1)) ELSE s

\* str.strip()
Strip(s) == RStrip(LStrip(s))

\* format() of a Scope member inside an f-string: the member's value where the
\* interpreter formats a mixed-in enum as its data type, "Scope.<name>" where it
\* formats it as str() of the member.
FormatScope(s) == IF pyEnumFormat = "value" THEN s ELSE "Scope." \o s

CommentId(r) ==
    "cmnt_" \o r.target_date \o "_" \o FormatScope(r.scope) \o "_" \o r.user_id

\* As AICommentResponse, with the scope and date of the response not taken from the
\* request.
AICommentResponseFixed(r, text) ==
    [id           |-> CommentId(r),
     scope        |-> "day",
     target_date  |-> "2024-05-01",
     text         |-> text,
     generated_at |-> "utcnow"]

AICommentResponse(r, text) ==
    [id           |-> CommentId(r),
     scope        |-> r.scope,
     target_date  |-> r.target_date,
     text         |-> text,
     generated_at |-> "utcnow"]

-----------------------------------------------------------------------------
(* The provider *)

Contents == { <<>>, <<" ", "\n">>, <<"o", "k">>, <<" ", "o", "k", "\n">> }

JText(chars) == [t |-> "text", v |-> chars]

\* What one call of the provider can produce: an exception, or a completion whose
\* first choice carries a content (None or a string).
Outcomes ==
    { [kind |-> "error"], [kind |-> "timeout"], [kind |-> "ok", content |-> Null] }
    \cup { [kind |-> "ok", content |-> JText(c)] : c \in Contents }

-----------------------------------------------------------------------------
(* The endpoint *)

\* The handler is a coroutine that calls the synchronous client: from the moment it
\* starts until the provider call returns it holds the event loop of the process.
LoopBusy == \E q \in Requests : pc[q] = "calling"

\* A caller sends a body. Without a running process nothing accepts the connection.
Submit(r, body) ==
    /\ server # "init"
    /\ pc[r] = "idle"
    /\ req' = [req EXCEPT ![r] = body]
    /\ pc' = [pc EXCEPT ![r] = IF server = "running" THEN "sent" ELSE "refused"]
    /\ UNCHANGED <<env, pyEnumFormat, server, api_key, client, SYSTEM_PROMPT,
                   sent, calls, completion, resp>>

\* The request is read, validated and, when valid, ai_comment runs up to the
\* provider call.
Handle(r) ==
    /\ server = "running"
    /\ pc[r] = "sent"
    /\ ~LoopBusy
    /\ IF ~AICommentRequestValid(req[r])
       THEN /\ resp' = [resp EXCEPT ![r] = [status |-> 422, detail |-> "validation error"]]
            /\ pc' = [pc EXCEPT ![r] = "done"]
            /\ UNCHANGED <<sent, calls>>
       ELSE /\ sent' = [sent EXCEPT ![r] = CreateArgs(req[r])]
            /\ calls' = [calls EXCEPT ![r] = @ + 1]
            /\ pc' = [pc EXCEPT ![r] = "calling"]
            /\ UNCHANGED resp
    /\ UNCHANGED <<env, pyEnumFormat, server, api_key, client, SYSTEM_PROMPT,
                   req, completion>>

\* As Respond, with a canned text per scope when the provider call fails.
RespondWithFallback(r, o) ==
    IF o.kind # "ok" \/ o.content = Null
    THEN [status |-> 200,
          body |-> AICommentResponse(r, <<"c", "a", "n", "n", "e", "d">>)]
    ELSE [status |-> 200, body |-> AICommentResponse(r, Strip(o.content.v))]

\* The response the rest of ai_comment gives for what the provider call produced.
Respond(r, o) ==
    IF o.kind # "ok" \/ o.content = Null
    THEN \* the exception of the client, or AttributeError on None.strip()
         [status |-> 500, detail |-> "Internal Server Error"]
    ELSE [status |-> 200, body |-> AICommentResponse(r, Strip(o.content.v))]

\* As ProviderReturn, with the call made again (at most twice) when it raises.
ProviderReturnRetrying(r) ==
    /\ pc[r] = "calling"
    /\ \E o \in Outcomes :
         IF o.kind # "ok" /\ calls[r] < 3
         THEN /\ calls' = [calls EXCEPT ![r] = @ + 1]
              /\ UNCHANGED <<pc, completion, resp>>
         ELSE /\ completion' = [completion EXCEPT ![r] = o]
              /\ resp' = [resp EXCEPT ![r] = Respond(req[r], o)]
              /\ pc' = [pc EXCEPT ![r] = "done"]
              /\ UNCHANGED calls
    /\ UNCHANGED <<env, pyEnumFormat, server, api_key, client, SYSTEM_PROMPT,
                   req, sent>>

\* The provider call returns or raises and ai_comment runs to its end.
ProviderReturn(r) ==
    /\ pc[r] = "calling"
    /\ \E o \in Outcomes :
         /\ completion' = [completion EXCEPT ![r] = o]
         /\ resp' = [resp EXCEPT ![r] = Respond(req[r], o)]
    /\ pc' = [pc EXCEPT ![r] = "done"]
    /\ UNCHANGED <<env, pyEnumFormat, server, api_key, client, SYSTEM_PROMPT,
                   req, sent, calls>>

\* The caller has its answer (or its refused connection); the exchange is over.
Receive(r) ==
    /\ pc[r] \in {"done", "refused"}
    /\ pc' = [pc EXCEPT ![r] = "idle"]
    /\ req' = [req EXCEPT ![r] = NoBody]
    /\ sent' = [sent EXCEPT ![r] = NoCall]
    /\ calls' = [calls EXCEPT ![r] = 0]
    /\ completion' = [completion EXCEPT ![r] = NoCompletion]
    /\ resp' = [resp EXCEPT ![r] = NoResp]
    /\ UNCHANGED <<env, pyEnumFormat, server, api_key, client, SYSTEM_PROMPT>>

-----------------------------------------------------------------------------
(* Inputs *)

Environment(a, b) == [n \in EnvNames |-> IF n = "OPENAI_API_KEY" THEN a ELSE b]

\* Each variable unset, empty or set.
EnvValues ==
    { Environment(Null, Null), Environment(JStr(""), Null),
      Environment(JStr("sk-A"), Null), Environment(JStr(""), JStr("sk-B")),
      Environment(JStr("sk-A"), JStr("sk-B")) }

ScopeInputs == Scope \cup {"year"}

Callers == {<<"u1", "2024-05-01">>, <<"u2", "2024-05-01">>, <<"u1", "2024-12-31">>}

PressureInputs ==
    {Null} \cup
    { [t |-> "obj", min |-> a, max |-> b, delta |-> c] :
        a \in {Null, JFloat(9985)}, b \in {Null, JFloat(10132)}, c \in {Null, JFloat(0)} }

HeadacheInputs ==
    { Missing,
      [t |-> "obj", count |-> JStr("abc"), max_level |-> JInt(2), avg_level |-> Null] }
    \cup
    { [t |-> "obj", count |-> JInt(c[1]), max_level |-> JInt(c[2]), avg_level |-> c[3]] :
        c \in {<<0, 0, Null>>, <<3, 2, Null>>, <<3, 2, JFloat(15)>>} }

SummaryInputs ==
    { [pressure |-> p, headache |-> h, sleep_hours_avg |-> sa[1],
       activity_score_avg |-> sa[2]] :
        p \in PressureInputs, h \in HeadacheInputs,
        sa \in {<<Null, Null>>, <<JFloat(65), Null>>, <<Null, JFloat(420)>>} }

\* Every body the callers of the sequential specification send.
Bodies ==
    { [user_id |-> c[1], scope |-> s, target_date |-> c[2], locale |-> "ja-JP",
       summary |-> m] :
        c \in Callers, s \in ScopeInputs, m \in SummaryInputs }

FullSummary ==
    [pressure |-> [t |-> "obj", min |-> JFloat(9985), max |-> JFloat(10132),
                   delta |-> JFloat(147)],
     headache |-> [t |-> "obj", count |-> JInt(3), max_level |-> JInt(2),
                   avg_level |-> JFloat(15)],
     sleep_hours_avg |-> JFloat(65), activity_score_avg |-> Null]

\* The bodies concurrent callers send.
ProbeBodies ==
    { [user_id |-> "u1", scope |-> "day", target_date |-> "2024-05-01",
       locale |-> "ja-JP", summary |-> FullSummary],
      [user_id |-> "u2", scope |-> "week", target_date |-> "2024-12-31",
       locale |-> "ja-JP", summary |-> [FullSummary EXCEPT !.pressure = Null]],
      [user_id |-> "u1", scope |-> "year", target_date |-> "2024-05-01",
       locale |-> "ja-JP", summary |-> FullSummary],
      [user_id |-> "u2", scope |-> "month", target_date |-> "2024-05-01",
       locale |-> "ja-JP", summary |-> [FullSummary EXCEPT !.headache = Missing]] }

-----------------------------------------------------------------------------
(* Specifications *)

Init ==
    /\ env \in EnvValues
    /\ pyEnumFormat \in {"value", "str"}
    /\ server = "init"
    /\ api_key = Unset
    /\ client = Unset
    /\ SYSTEM_PROMPT = Unset
    /\ pc = [r \in Requests |-> "idle"]
    /\ req = [r \in Requests |-> NoBody]
    /\ sent = [r \in Requests |-> NoCall]
    /\ calls = [r \in Requests |-> 0]
    /\ completion = [r \in Requests |-> NoCompletion]
    /\ resp = [r \in Requests |-> NoResp]

\* Callers that send independently of each other.
Next ==
    \/ Startup
    \/ \E r \in Requests : \E b \in ProbeBodies : Submit(r, b)
    \/ \E r \in Requests : Handle(r)
    \/ \E r \in Requests : ProviderReturn(r)
    \/ \E r \in Requests : Receive(r)

Spec == Init /\ [][Next]_vars

AllIdle == \A q \in Requests : pc[q] = "idle"

\* One exchange at a time, over every body of Bodies.
NextSeq ==
    \/ Startup
    \/ \E r \in Requests : \E b \in Bodies : AllIdle /\ Submit(r, b)
    \/ \E r \in Requests : Handle(r)
    \/ \E r \in Requests : ProviderReturn(r)
    \/ \E r \in Requests : Receive(r)

SpecSeq == Init /\ [][NextSeq]_vars

-----------------------------------------------------------------------------
(* Properties *)

\* The schema of AICommentRequest, stated on the body alone.
SchemaOk(b) ==
    /\ b.scope \in {"day", "week", "month"}
    /\ b.summary.headache.t = "obj"
    /\ b.summary.headache.count.t = "int"
    /\ b.summary.headache.max_level.t = "int"

\* The required credential is in the environment.
CredentialPresent ==
    \E n \in EnvNames : env[n] # Null /\ env[n] # JStr("")

Succeeded(r) == pc[r] = "done" /\ resp[r].status = 200

Failed5xx(r) == resp[r].status >= 500 /\ resp[r].status <= 599

Rejected4xx(r) == resp[r].status >= 400 /\ resp[r].status <= 499

\* The user prompt sent to the provider for request r, and its four summary lines.
PromptOf(r) == sent[r].messages[2].content

StatsOf(r) == SubSeq(PromptOf(r), 4, 7)

Has(line, piece) == \E i \in 1..Len(line) : line[i] = piece

NullTokens == {"None", "null", "nan", "NaN"}

HasNullToken(line) == \E i \in 1..Len(line) : line[i] \in NullTokens

\* C1: every success response has id = "cmnt_" + target_date + "_" + scope + "_" +
\* user_id, with scope the bare enumeration value (day, week, month).
C1_IdIsTemplate ==
    \A r \in Requests :
        Succeeded(r) =>
            resp[r].body.id =
                "cmnt_" \o req[r].target_date \o "_" \o req[r].scope \o "_" \o req[r].user_id

\* C2: a body that fails the schema is answered with a 4xx status, with no prompt
\* built and no provider call made for it; and no prompt sent to the provider
\* carries the default label.
C2_InvalidRejected ==
    \A r \in Requests :
        /\ (pc[r] \in {"calling", "done"} /\ ~SchemaOk(req[r])) =>
               /\ pc[r] = "done"
               /\ Rejected4xx(r)
               /\ calls[r] = 0
               /\ sent[r] = NoCall
        /\ sent[r] # NoCall =>
               \A i \in 1..Len(PromptOf(r)) : ~Has(PromptOf(r)[i], DefaultLabel)

C2_Witness ==
    \E r \in Requests :
        /\ pc[r] = "done"
        /\ req[r].scope = "year"
        /\ req[r].summary.headache.t = "obj"
        /\ resp[r].status = 422
        /\ calls[r] = 0

\* C3: when the provider call raises (error or timeout) the response is a 5xx one,
\* never a success, and exactly one provider call was made for the request.
C3_FailureIsServerError ==
    \A r \in Requests :
        /\ calls[r] <= 1
        /\ (pc[r] = "done" /\ completion[r] # NoCompletion
              /\ completion[r].kind \in {"error", "timeout"}) =>
               /\ Failed5xx(r)
               /\ calls[r] = 1

C3_Witness ==
    \E r \in Requests :
        /\ pc[r] = "done"
        /\ completion[r] = [kind |-> "timeout"]
        /\ resp[r].status = 500
        /\ calls[r] = 1

\* C4 as stated: with the credential absent, a request that was attempted ends with
\* a 5xx response to the caller.
C4_AbsentCredentialGives5xx ==
    \A r \in Requests :
        (~CredentialPresent /\ pc[r] \notin {"idle", "sent", "calling"}) => Failed5xx(r)

\* C4 as amended: with the credential absent the process fails at start-up, so no
\* request is accepted, no provider call is made and no HTTP response of any class is
\* produced; a running process holds a credential read from the environment.
C4_AbsentCredentialStopsStartup ==
    /\ ~CredentialPresent =>
           /\ server # "running"
           /\ \A r \in Requests :
                  /\ pc[r] \in {"idle", "refused"}
                  /\ calls[r] = 0
                  /\ sent[r] = NoCall
                  /\ resp[r] = NoResp
    /\ server = "running" =>
           /\ api_key \in {env[n] : n \in EnvNames}
           /\ api_key # Null /\ api_key # JStr("")
           /\ client = [api_key |-> api_key]

C4_Witness ==
    /\ ~CredentialPresent
    /\ server = "crashed"
    /\ \E r \in Requests : pc[r] = "refused" /\ resp[r] = NoResp

\* C5: a request that passes validation has had exactly one provider call made for it
\* when its response is produced, and no request changes a module-level value.
C5_OneCallPerRequest ==
    /\ [](\A r \in Requests :
            (pc[r] = "done" /\ SchemaOk(req[r])) => calls[r] = 1)
    /\ [][server = "running" => UNCHANGED <<env, api_key, client, SYSTEM_PROMPT>>]_vars

C5_Witness ==
    \E r \in Requests :
        /\ Succeeded(r)
        /\ calls[r] = 1
        /\ client = OpenAI(api_key)

\* C6: with a PressureSummary present, each of min, max, delta that is null appears in
\* the pressure line as the "no information" phrase.
C6_NullPressureFieldIsNoInfo ==
    \A r \in Requests :
        (sent[r] # NoCall /\ req[r].summary.pressure # Null) =>
            /\ req[r].summary.pressure.min = Null => StatsOf(r)[1][3] = NO_INFO
            /\ req[r].summary.pressure.max = Null => StatsOf(r)[1][5] = NO_INFO
            /\ req[r].summary.pressure.delta = Null => StatsOf(r)[1][7] = NO_INFO
            /\ ~HasNullToken(StatsOf(r)[1])

\* C7: for every valid request a prompt is built; with summary.pressure absent its
\* pressure line is the "no information" line, with avg_level absent the average is
\* the "no information" marker, and neither line carries a null token.
C7_AbsentValuesAreNoInfo ==
    \A r \in Requests :
        (pc[r] \in {"calling", "done"} /\ SchemaOk(req[r])) =>
            /\ sent[r] # NoCall
            /\ req[r].summary.pressure = Null =>
                   /\ StatsOf(r)[1] = <<"- KIATSU: ", NO_INFO>>
                   /\ ~HasNullToken(StatsOf(r)[1])
            /\ req[r].summary.headache.avg_level = Null =>
                   /\ StatsOf(r)[2][Len(StatsOf(r)[2])] = NO_INFO
                   /\ StatsOf(r)[2][Len(StatsOf(r)[2]) - 1] = "HEIKIN LEVEL "
                   /\ ~HasNullToken(StatsOf(r)[2])

C7_Witness ==
    \E r \in Requests :
        /\ pc[r] = "calling"
        /\ req[r].summary.pressure = Null
        /\ req[r].summary.headache.avg_level = Null
        /\ Has(StatsOf(r)[1], NO_INFO)
        /\ Has(StatsOf(r)[2], NO_INFO)

\* C8: while one request waits on its provider call, any other request that has been
\* sent can be taken up by the service.
C8_NoBlocking ==
    \A r1, r2 \in Requests :
        (r1 # r2 /\ pc[r1] = "calling" /\ pc[r2] = "sent") => ENABLED Handle(r2)

\* C9: a completion whose content is null, empty or only whitespace ends in a 5xx
\* response, and no success response carries an empty text.
C9_EmptyCompletionFails ==
    \A r \in Requests :
        /\ (pc[r] = "done" /\ completion[r] # NoCompletion /\ completion[r].kind = "ok") =>
               (IF completion[r].content = Null
                THEN Failed5xx(r)
                ELSE Strip(completion[r].content.v) = <<>> => Failed5xx(r))
        /\ Succeeded(r) => resp[r].body.text # <<>>

\* C10: every success response carries the scope and the target_date of its request.
C10_PassThrough ==
    \A r \in Requests :
        Succeeded(r) =>
            /\ resp[r].body.scope = req[r].scope
            /\ resp[r].body.target_date = req[r].target_date

C10_Witness ==
    \E r \in Requests :
        /\ Succeeded(r)
        /\ req[r].scope = "month"
        /\ req[r].target_date = "2024-12-31"
        /\ resp[r].body.scope = "month"
        /\ resp[r].body.text = <<"o", "k">>

====
